---- MODULE Spec2Model ----
(***************************************************************************)
(* Survey insight pipeline of app.py: validate_payload, generate_insights, *)
(* generate_description, store_in_database and the process_survey handler  *)
(* running on a single event loop.                                         *)
(*                                                                         *)
(* JSON values are tagged records, so that a field holding a string or     *)
(* null can be told from one holding an integer.  Floating point results   *)
(* rounded to two decimals are kept as integers in hundredths.             *)
(***************************************************************************)
EXTENDS Integers, Sequences, FiniteSets

VARIABLES pc, payload, locals, events, resp, running, collection

vars == <<pc, payload, locals, events, resp, running, collection>>

(***************************************************************************)
(* Program constants.                                                      *)
(***************************************************************************)
MinUserIdLen == 5
NumQuestions == 10
MaxQuestionValue == 7
HairThreshold == 4
FurThreshold == 5
TailThreshold == 4

(***************************************************************************)
(* Bounds of the model.                                                    *)
(***************************************************************************)
NumRequests == 2
MaxEdits == 1

(***************************************************************************)
(* JSON values.                                                            *)
(***************************************************************************)
JInt(k) == [t |-> "int", n |-> k, s |-> ""]
JStr(str) == [t |-> "str", n |-> 0, s |-> str]
JNull == [t |-> "null", n |-> 0, s |-> ""]
JList(xs) == [t |-> "list", items |-> xs]
JNotList == [t |-> "null", items |-> <<>>]

\* dict.get(key): None when the key is absent.
Get(d, key, none) == IF key \in DOMAIN d THEN d[key] ELSE none

(***************************************************************************)
(* Exceptions: the class, the message and its argument, and the source     *)
(* line at which the exception is raised.                                  *)
(***************************************************************************)
NoError == [exc |-> "none", msg |-> "", arg |-> 0, line |-> 0]
Raise(cls, m, a, l) == [exc |-> cls, msg |-> m, arg |-> a, line |-> l]

\* ValidateEntries with the value range checked before the duplicate
\* (lines 76-78 moved above line 71).
RECURSIVE ValidateEntriesValueFirst(_, _, _)
ValidateEntriesValueFirst(items, i, question_numbers) ==
    IF i > Len(items) THEN NoError
    ELSE LET result == items[i] IN
      IF "question_number" \notin DOMAIN result
        THEN Raise("KeyError", "question_number", 0, 68)
      ELSE IF result.question_number.t # "int"
        THEN Raise("TypeError", "'<=' not supported", 0, 68)
      ELSE IF ~(1 <= result.question_number.n /\ result.question_number.n <= NumQuestions)
        THEN Raise("InvalidUsage", "question_number must be between 1 and 10.", 0, 70)
      ELSE IF "question_value" \notin DOMAIN result
        THEN Raise("KeyError", "question_value", 0, 76)
      ELSE IF result.question_value.t # "int"
        THEN Raise("TypeError", "'<=' not supported", 0, 76)
      ELSE IF ~(1 <= result.question_value.n /\ result.question_value.n <= MaxQuestionValue)
        THEN Raise("InvalidUsage", "question_value must be between 1 and 7.", 0, 78)
      ELSE IF result.question_number.n \in question_numbers
        THEN Raise("InvalidUsage", "Duplicate question_number found", result.question_number.n, 73)
      ELSE ValidateEntriesValueFirst(items, i + 1, question_numbers \cup {result.question_number.n})

\* ValidateEntries reporting a duplicate only of the entry just before
\* (question_numbers replaced at line 74 instead of added to).
RECURSIVE ValidateEntriesLastSeen(_, _, _)
ValidateEntriesLastSeen(items, i, question_numbers) ==
    IF i > Len(items) THEN NoError
    ELSE LET result == items[i] IN
      IF "question_number" \notin DOMAIN result
        THEN Raise("KeyError", "question_number", 0, 68)
      ELSE IF result.question_number.t # "int"
        THEN Raise("TypeError", "'<=' not supported", 0, 68)
      ELSE IF ~(1 <= result.question_number.n /\ result.question_number.n <= NumQuestions)
        THEN Raise("InvalidUsage", "question_number must be between 1 and 10.", 0, 70)
      ELSE IF result.question_number.n \in question_numbers
        THEN Raise("InvalidUsage", "Duplicate question_number found", result.question_number.n, 73)
      ELSE IF "question_value" \notin DOMAIN result
        THEN Raise("KeyError", "question_value", 0, 76)
      ELSE IF result.question_value.t # "int"
        THEN Raise("TypeError", "'<=' not supported", 0, 76)
      ELSE IF ~(1 <= result.question_value.n /\ result.question_value.n <= MaxQuestionValue)
        THEN Raise("InvalidUsage", "question_value must be between 1 and 7.", 0, 78)
      ELSE ValidateEntriesLastSeen(items, i + 1, {result.question_number.n})

\* Lines 66-78: the loop over survey_results, from entry i on, with the
\* question_numbers seen so far.  A missing key raises KeyError and a
\* comparison of a string or None with an integer raises TypeError.
RECURSIVE ValidateEntries(_, _, _)
ValidateEntries(items, i, question_numbers) ==
    IF i > Len(items) THEN NoError
    ELSE LET result == items[i] IN
      IF "question_number" \notin DOMAIN result
        THEN Raise("KeyError", "question_number", 0, 68)
      ELSE IF result.question_number.t # "int"
        THEN Raise("TypeError", "'<=' not supported", 0, 68)
      ELSE IF ~(1 <= result.question_number.n /\ result.question_number.n <= NumQuestions)
        THEN Raise("InvalidUsage", "question_number must be between 1 and 10.", 0, 70)
      ELSE IF result.question_number.n \in question_numbers
        THEN Raise("InvalidUsage", "Duplicate question_number found", result.question_number.n, 73)
      ELSE IF "question_value" \notin DOMAIN result
        THEN Raise("KeyError", "question_value", 0, 76)
      ELSE IF result.question_value.t # "int"
        THEN Raise("TypeError", "'<=' not supported", 0, 76)
      ELSE IF ~(1 <= result.question_value.n /\ result.question_value.n <= MaxQuestionValue)
        THEN Raise("InvalidUsage", "question_value must be between 1 and 7.", 0, 78)
      ELSE ValidateEntries(items, i + 1, question_numbers \cup {result.question_number.n})

\* validate_payload accepting any list that is not empty (line 62 testing
\* len(survey_results) == 0).
validate_payloadAnyLength(p) ==
    LET user_id == Get(p, "user_id", JNull)
        survey_results == Get(p, "survey_results", JNotList)
    IN  IF user_id.t # "str" \/ Len(user_id.s) < MinUserIdLen
          THEN Raise("InvalidUsage", "Invalid user_id: must be a string with at least 5 characters.", 0, 59)
        ELSE IF survey_results.t # "list" \/ Len(survey_results.items) = 0
          THEN Raise("InvalidUsage", "Invalid survey_results: must contain exactly 10 objects.", 0, 64)
        ELSE ValidateEntries(survey_results.items, 1, {})

\* Lines 56-78.
validate_payload(p) ==
    LET user_id == Get(p, "user_id", JNull)
        survey_results == Get(p, "survey_results", JNotList)
    IN  IF user_id.t # "str" \/ Len(user_id.s) < MinUserIdLen
          THEN Raise("InvalidUsage", "Invalid user_id: must be a string with at least 5 characters.", 0, 59)
        ELSE IF survey_results.t # "list" \/ Len(survey_results.items) # NumQuestions
          THEN Raise("InvalidUsage", "Invalid survey_results: must contain exactly 10 objects.", 0, 64)
        ELSE ValidateEntries(survey_results.items, 1, {})

(***************************************************************************)
(* statistics.mean, median and stdev followed by round(x, 2), in           *)
(* hundredths.                                                             *)
(***************************************************************************)
RECURSIVE SumSeq(_)
SumSeq(xs) == IF xs = <<>> THEN 0 ELSE Head(xs) + SumSeq(Tail(xs))

RECURSIVE SumSquares(_)
SumSquares(xs) == IF xs = <<>> THEN 0 ELSE Head(xs) * Head(xs) + SumSquares(Tail(xs))

\* sorted(data), by insertion.
RECURSIVE Insert(_, _)
Insert(x, xs) ==
    IF xs = <<>> THEN <<x>>
    ELSE IF x <= Head(xs) THEN <<x>> \o xs
    ELSE <<Head(xs)>> \o Insert(x, Tail(xs))

RECURSIVE Sorted(_)
Sorted(xs) == IF xs = <<>> THEN <<>> ELSE Insert(Head(xs), Sorted(Tail(xs)))

\* round(num / den, 2) in hundredths: nearest, an exact tie to the even one.
RoundDiv100(num, den) ==
    LET q == (100 * num) \div den
        r == (100 * num) % den
    IN  IF 2 * r < den THEN q
        ELSE IF 2 * r > den THEN q + 1
        ELSE IF q % 2 = 0 THEN q ELSE q + 1

\* The largest s in lo..hi with (2s-1)^2 * den <= 40000 * num, that is
\* with s - 1/2 <= 100 * sqrt(num / den).
RECURSIVE RoundSqrtSearch(_, _, _, _)
RoundSqrtSearch(num, den, lo, hi) ==
    IF lo >= hi THEN lo
    ELSE LET mid == (lo + hi + 1) \div 2 IN
         IF (2 * mid - 1) * (2 * mid - 1) * den <= 40000 * num
           THEN RoundSqrtSearch(num, den, mid, hi)
           ELSE RoundSqrtSearch(num, den, lo, mid - 1)

\* round(sqrt(num / den), 2) in hundredths.
RoundSqrt100(num, den) == RoundSqrtSearch(num, den, 0, 1023)

\* Line 88.
Mean100(question_values) == RoundDiv100(SumSeq(question_values), Len(question_values))

\* Line 89: the middle value, or the average of the two middle values.
Median100(question_values) ==
    LET data == Sorted(question_values)
        n == Len(data)
    IN  IF n % 2 = 1 THEN 100 * data[(n + 1) \div 2]
        ELSE RoundDiv100(data[n \div 2] + data[n \div 2 + 1], 2)

\* StdDev100 with the population standard deviation (pstdev for stdev).
StdDev100Population(question_values) ==
    LET n == Len(question_values)
        s == SumSeq(question_values)
    IN  IF n > 1
          THEN RoundSqrt100(n * SumSquares(question_values) - s * s, n * n)
          ELSE 0

\* Line 90: the sample standard deviation, 0 for fewer than two values.
StdDev100(question_values) ==
    LET n == Len(question_values)
        s == SumSeq(question_values)
    IN  IF n > 1
          THEN RoundSqrt100(n * SumSquares(question_values) - s * s, n * (n - 1))
          ELSE 0

\* Lines 87-91.
summary_stats(question_values) ==
    [mean |-> Mean100(question_values),
     median |-> Median100(question_values),
     std_dev |-> StdDev100(question_values)]

\* Line 84: the values in the order the entries are listed.
QuestionValues(p) ==
    [i \in 1..Len(p.survey_results.items) |-> p.survey_results.items[i].question_value.n]

\* Line 94 (question_values[0], question_values[3]).
overall_analysis(question_values) ==
    IF question_values[1] # 7 \/ question_values[4] >= 3 THEN "certain" ELSE "unsure"

\* cat_dog with question_values[8] < 5 for <= 5.
cat_dogStrict(question_values) ==
    IF question_values[10] > 5 /\ question_values[9] < 5 THEN "cats" ELSE "dogs"

\* Line 95 (question_values[9], question_values[8]).
cat_dog(question_values) ==
    IF question_values[10] > 5 /\ question_values[9] <= 5 THEN "cats" ELSE "dogs"

\* Line 96.
fur_value(stats) == IF stats.mean > 100 * FurThreshold THEN "long" ELSE "short"

\* Line 97 (question_values[6]).
tail_value(question_values) ==
    IF question_values[7] > TailThreshold THEN "long" ELSE "short"

\* TemplateFile with average >= 4 for > 4.
TemplateFileAtLeast(average) ==
    IF average >= 100 * HairThreshold THEN "the_value_of_short_hair.txt"
    ELSE "the_value_of_long_hair.txt"

\* Line 111.
TemplateFile(average) ==
    IF average > 100 * HairThreshold THEN "the_value_of_short_hair.txt"
    ELSE "the_value_of_long_hair.txt"

\* Lines 113-119: the contents of a file stand for themselves.
InputText(file_name) == <<"system_prompt.txt", "\n", file_name>>

(***************************************************************************)
(* The submissions the requests carry: a few base submissions, each        *)
(* changed by at most MaxEdits edits.                                      *)
(***************************************************************************)
Entry(n, v) == [question_number |-> JInt(n), question_value |-> JInt(v)]

Entries(ns, vs) == [i \in 1..Len(ns) |-> Entry(ns[i], vs[i])]

InOrder == [i \in 1..NumQuestions |-> i]

Constant(v) == [i \in 1..NumQuestions |-> v]

BaseEntries ==
    { Entries(InOrder, <<7, 1, 1, 1, 1, 1, 5, 1, 6, 6>>),
      Entries(InOrder, Constant(HairThreshold)),
      Entries(InOrder, Constant(FurThreshold)),
      Entries(InOrder, <<1, 2, 3, 4, 5, 6, 7, 1, 2, 3>>),
      Entries(<<1, 2, 3, 4, 5, 6, 8, 9, 10, 10>>, Constant(HairThreshold)) }

\* Fields that are not integers: a string and null.
Tokens == {JStr("seven"), JNull}

TokenPositions == {1, NumQuestions \div 2, NumQuestions}

Without(rec, key) == [k \in DOMAIN rec \ {key} |-> rec[k]]

SwapAt(items, i) ==
    [k \in 1..Len(items) |-> IF k = i THEN items[i + 1] ELSE IF k = i + 1 THEN items[i] ELSE items[k]]

\* The lists one edit away from items: a field moved by one, a field that is
\* not an integer or is missing, two neighbours exchanged, an entry more or
\* less.
EditsOf(items) ==
    LET idx == 1..Len(items)
        intNumber == {i \in idx : "question_number" \in DOMAIN items[i] /\ items[i].question_number.t = "int"}
        intValue == {i \in idx : "question_value" \in DOMAIN items[i] /\ items[i].question_value.t = "int"}
    IN  { [items EXCEPT ![i].question_number = JInt(@.n + d)] : i \in intNumber, d \in {-1, 1} }
   \cup { [items EXCEPT ![i].question_value = JInt(@.n + d)] : i \in intValue, d \in {-1, 1} }
   \cup { [items EXCEPT ![i].question_number = tok] :
              i \in {j \in TokenPositions \cap idx : "question_number" \in DOMAIN items[j]}, tok \in Tokens }
   \cup { [items EXCEPT ![i].question_value = tok] :
              i \in {j \in TokenPositions \cap idx : "question_value" \in DOMAIN items[j]}, tok \in Tokens }
   \cup { [items EXCEPT ![i] = Without(@, "question_number")] : i \in TokenPositions \cap idx }
   \cup { [items EXCEPT ![i] = Without(@, "question_value")] : i \in TokenPositions \cap idx }
   \cup { SwapAt(items, i) : i \in {j \in idx : j < Len(items)} }
   \cup { SubSeq(items, 1, Len(items) - 1) : i \in {j \in idx : j = 1} }
   \cup { Append(items, items[i]) : i \in {j \in idx : j = 1} }

RECURSIVE EntryLists(_)
EntryLists(k) ==
    IF k = 0 THEN BaseEntries
    ELSE LET prev == EntryLists(k - 1) IN prev \cup UNION { EditsOf(items) : items \in prev }

UserIds == {JStr("abcd"), JStr("abcde"), JInt(12345)}

\* Every submission of the family: any user_id (or none) with any entry list
\* (or with survey_results null or absent).
Payloads ==
    LET lists == {JList(items) : items \in EntryLists(MaxEdits)} \cup {JNotList}
        full == { [user_id |-> u, survey_results |-> l] : u \in UserIds, l \in lists }
    IN  full \cup { Without(p, "user_id") : p \in full }
             \cup { Without(p, "survey_results") : p \in {q \in full : q.survey_results = JNotList} }

(***************************************************************************)
(* The process_survey handler.  Requests are coroutines of one event loop: *)
(* running is the request whose handler holds the loop, 0 when the loop is *)
(* free.  A handler gives the loop up only at an await that suspends       *)
(* (line 136) and when it returns.                                         *)
(***************************************************************************)
Requests == 1..NumRequests

NoPayload == [none |-> TRUE]

NoInsights ==
    [overall_analysis |-> "", cat_dog |-> "", fur_value |-> "", tail_value |-> "",
     description |-> <<>>, statistics |-> [mean |-> 0, median |-> 0, std_dev |-> 0]]

\* The handler's local variables; e is the exception it caught.
NoLocals ==
    [question_values |-> <<>>, insights |-> NoInsights, file_name |-> "", input_text |-> <<>>,
     e |-> NoError]

NoResponse == [status |-> 0, error |-> "", message |-> "", arg |-> 0, insights |-> NoInsights]

\* Lines 48-54: the response to an exception the handler caught.
ErrorResponse(e) ==
    IF e.exc = "InvalidUsage"
      THEN [status |-> 400, error |-> e.msg, message |-> "", arg |-> e.arg, insights |-> NoInsights]
      ELSE [status |-> 500, error |-> "", message |-> e.msg, arg |-> e.arg, insights |-> NoInsights]

\* Line 46.
OkResponse(ins) == [status |-> 200, error |-> "", message |-> "", arg |-> 0, insights |-> ins]

\* Lines 48-54: the handler catches e, responds and returns.
Fail(r, e, evs) ==
    /\ pc' = [pc EXCEPT ![r] = "done"]
    /\ resp' = [resp EXCEPT ![r] = ErrorResponse(e)]
    /\ events' = [events EXCEPT ![r] = @ \o evs \o <<"response">>]
    /\ locals' = [locals EXCEPT ![r].e = e]
    /\ running' = 0

\* A request arrives with its body.
Receive(r, p) ==
    /\ pc[r] = "idle"
    /\ pc' = [pc EXCEPT ![r] = "received"]
    /\ payload' = [payload EXCEPT ![r] = p]
    /\ UNCHANGED <<locals, events, resp, running, collection>>

\* Lines 38-40: the loop starts the handler, which validates the payload.
Validate(r) ==
    /\ running = 0
    /\ pc[r] = "received"
    /\ LET e == validate_payload(payload[r]) IN
         IF e.exc = "none"
           THEN /\ pc' = [pc EXCEPT ![r] = "validated"]
                /\ events' = [events EXCEPT ![r] = Append(@, "validate")]
                /\ running' = r
                /\ UNCHANGED <<resp, locals>>
           ELSE Fail(r, e, <<"validate">>)
    /\ UNCHANGED <<payload, collection>>

\* Lines 81-97: the statistics and the labels.
Compute(r) ==
    /\ running = r
    /\ pc[r] = "validated"
    /\ LET question_values == QuestionValues(payload[r])
           stats == summary_stats(question_values)
       IN  locals' = [locals EXCEPT ![r] =
               [@ EXCEPT !.question_values = question_values,
                         !.insights = [NoInsights EXCEPT
                             !.overall_analysis = overall_analysis(question_values),
                             !.cat_dog = cat_dog(question_values),
                             !.fur_value = fur_value(stats),
                             !.tail_value = tail_value(question_values),
                             !.statistics = stats]]]
    /\ pc' = [pc EXCEPT ![r] = "computed"]
    /\ UNCHANGED <<payload, events, resp, running, collection>>

\* Lines 110-119 and 126-128: the template and the system prompt are read;
\* either file may be missing.
ReadTemplates(r) ==
    /\ running = r
    /\ pc[r] = "computed"
    /\ \E found \in {"both", "no template", "no system prompt"} :
         LET file_name == TemplateFile(locals[r].insights.statistics.mean) IN
         IF found = "both"
           THEN /\ locals' = [locals EXCEPT ![r].file_name = file_name,
                                            ![r].input_text = InputText(file_name)]
                /\ pc' = [pc EXCEPT ![r] = "prompted"]
                /\ UNCHANGED <<events, resp, running>>
           ELSE Fail(r, Raise("FileNotFoundError", found, 0,
                              IF found = "no template" THEN 113 ELSE 116), <<>>)
    /\ UNCHANGED <<payload, collection>>

\* Line 122: the generator is called; the call is synchronous, so the
\* handler keeps the loop until the generator returns.
GeneratorCall(r) ==
    /\ running = r
    /\ pc[r] = "prompted"
    /\ pc' = [pc EXCEPT ![r] = "in_model"]
    /\ events' = [events EXCEPT ![r] = Append(@, "model")]
    /\ UNCHANGED <<payload, locals, resp, running, collection>>

\* Lines 122-128 and 98-107: the generator returns its text, or raises.
GeneratorReturn(r) ==
    /\ running = r
    /\ pc[r] = "in_model"
    /\ \E ok \in BOOLEAN :
         IF ok
           THEN /\ locals' = [locals EXCEPT ![r].insights.description =
                                  locals[r].input_text \o <<"generated_text">>]
                /\ pc' = [pc EXCEPT ![r] = "described"]
                /\ UNCHANGED <<events, resp, running>>
           ELSE Fail(r, Raise("RuntimeError", "generator failed", 0, 122), <<>>)
    /\ UNCHANGED <<payload, collection>>

\* Lines 44 and 130-136: insert_one is awaited; the handler is suspended
\* and the loop is free.
StoreCall(r) ==
    /\ running = r
    /\ pc[r] = "described"
    /\ pc' = [pc EXCEPT ![r] = "awaiting_insert"]
    /\ events' = [events EXCEPT ![r] = Append(@, "insert_one")]
    /\ running' = 0
    /\ UNCHANGED <<payload, locals, resp, collection>>

\* Line 136: the store writes the record, or fails.
InsertComplete(r) ==
    /\ pc[r] = "awaiting_insert"
    /\ \E ok \in BOOLEAN :
         IF ok
           THEN /\ collection' = Append(collection,
                      [user_id |-> payload[r].user_id, insights |-> locals[r].insights])
                /\ pc' = [pc EXCEPT ![r] = "inserted"]
           ELSE /\ pc' = [pc EXCEPT ![r] = "insert_failed"]
                /\ UNCHANGED collection
    /\ UNCHANGED <<payload, locals, events, resp, running>>

\* Resume with the failure of insert_one swallowed (lines 138-140 without
\* the raise).
ResumeSwallowing(r) ==
    /\ running = 0
    /\ pc[r] \in {"inserted", "insert_failed"}
    /\ pc' = [pc EXCEPT ![r] = "done"]
    /\ resp' = [resp EXCEPT ![r] = OkResponse(locals[r].insights)]
    /\ events' = [events EXCEPT ![r] = Append(@, "response")]
    /\ running' = 0
    /\ UNCHANGED <<payload, locals, collection>>

\* Lines 137-140 and 46-54: the loop resumes the handler, which responds.
Resume(r) ==
    /\ running = 0
    /\ pc[r] \in {"inserted", "insert_failed"}
    /\ IF pc[r] = "inserted"
         THEN /\ pc' = [pc EXCEPT ![r] = "done"]
              /\ resp' = [resp EXCEPT ![r] = OkResponse(locals[r].insights)]
              /\ events' = [events EXCEPT ![r] = Append(@, "response")]
              /\ running' = 0
              /\ UNCHANGED locals
         ELSE Fail(r, Raise("PyMongoError", "insert_one failed", 0, 136), <<>>)
    /\ UNCHANGED <<payload, collection>>

\* The handler's steps of request r.
Step(r) ==
    \/ Validate(r)
    \/ Compute(r)
    \/ ReadTemplates(r)
    \/ GeneratorCall(r)
    \/ GeneratorReturn(r)
    \/ StoreCall(r)
    \/ InsertComplete(r)
    \/ Resume(r)

(***************************************************************************)
(* Spec: NumRequests requests in flight on the one loop, each carrying one *)
(* of a few submissions.                                                   *)
(***************************************************************************)
\* The submissions of the concurrent specification: the base submissions
\* under each user_id.
FewPayloads ==
    { [user_id |-> u, survey_results |-> JList(items)] :
          u \in {JStr("abcd"), JStr("abcde")},
          items \in { Entries(InOrder, Constant(HairThreshold)),
                      Entries(<<1, 2, 3, 4, 5, 6, 8, 9, 10, 10>>, Constant(HairThreshold)) } }

Init ==
    /\ pc = [r \in Requests |-> "idle"]
    /\ payload = [r \in Requests |-> NoPayload]
    /\ locals = [r \in Requests |-> NoLocals]
    /\ events = [r \in Requests |-> <<>>]
    /\ resp = [r \in Requests |-> NoResponse]
    /\ running = 0
    /\ collection = <<>>

Next ==
    \E r \in Requests :
        \/ \E p \in FewPayloads : Receive(r, p)
        \/ Step(r)

Spec == Init /\ [][Next]_vars

(***************************************************************************)
(* SpecOne: one request, carrying any submission of the family.            *)
(***************************************************************************)
InitOne ==
    /\ pc = [r \in Requests |-> IF r = 1 THEN "received" ELSE "idle"]
    /\ payload \in {[r \in Requests |-> IF r = 1 THEN p ELSE NoPayload] : p \in Payloads}
    /\ locals = [r \in Requests |-> NoLocals]
    /\ events = [r \in Requests |-> <<>>]
    /\ resp = [r \in Requests |-> NoResponse]
    /\ running = 0
    /\ collection = <<>>

NextOne == Step(1)

SpecOne == InitOne /\ [][NextOne]_vars

(***************************************************************************)
(* What the claims are stated in: the submission a request carries, read   *)
(* without the validator.                                                  *)
(***************************************************************************)
UserIdOk(p) ==
    /\ "user_id" \in DOMAIN p
    /\ p.user_id.t = "str"
    /\ Len(p.user_id.s) >= 5

ShapeOk(p) ==
    /\ "survey_results" \in DOMAIN p
    /\ p.survey_results.t = "list"
    /\ Len(p.survey_results.items) = 10

ItemsOf(p) == p.survey_results.items

HasInt(entry, key) == key \in DOMAIN entry /\ entry[key].t = "int"

NumberOk(entry) ==
    /\ HasInt(entry, "question_number")
    /\ entry.question_number.n \in 1..10

ValueOk(entry) ==
    /\ HasInt(entry, "question_value")
    /\ entry.question_value.n \in 1..7

\* Entry i carries the integer question_number of an entry listed before it.
Repeats(items, i) ==
    /\ HasInt(items[i], "question_number")
    /\ \E j \in 1..(i - 1) :
          /\ HasInt(items[j], "question_number")
          /\ items[j].question_number.n = items[i].question_number.n

\* The first check entry i violates, in the order number, duplicate, value.
EntryViolation(items, i) ==
    IF ~NumberOk(items[i]) THEN "question_number"
    ELSE IF Repeats(items, i) THEN "duplicate"
    ELSE IF ~ValueOk(items[i]) THEN "question_value"
    ELSE "none"

MinOf(S) == CHOOSE x \in S : \A y \in S : x <= y

\* The first check the submission violates, in the order user_id,
\* survey_results, then the entries as listed.
FirstViolation(p) ==
    IF ~UserIdOk(p) THEN "user_id"
    ELSE IF ~ShapeOk(p) THEN "survey_results"
    ELSE LET bad == {i \in 1..10 : EntryViolation(ItemsOf(p), i) # "none"} IN
         IF bad = {} THEN "none" ELSE EntryViolation(ItemsOf(p), MinOf(bad))

\* The check an exception comes from, by the line that raised it.
CheckOf(e) ==
    IF e.line = 59 THEN "user_id"
    ELSE IF e.line = 64 THEN "survey_results"
    ELSE IF e.line \in {68, 70} THEN "question_number"
    ELSE IF e.line = 73 THEN "duplicate"
    ELSE IF e.line \in {76, 78} THEN "question_value"
    ELSE "none"

\* The message of each check's failure.
MessageOf(check) ==
    IF check = "user_id" THEN "Invalid user_id: must be a string with at least 5 characters."
    ELSE IF check = "survey_results" THEN "Invalid survey_results: must contain exactly 10 objects."
    ELSE IF check = "question_number" THEN "question_number must be between 1 and 10."
    ELSE IF check = "duplicate" THEN "Duplicate question_number found"
    ELSE "question_value must be between 1 and 7."

\* validate_payload has run for request r.
HasValidated(r) == Len(events[r]) > 0

\* validate_payload raised for request r.
Rejected(r) == pc[r] = "done" /\ locals[r].e.line \in 56..78

\* validate_payload returned for request r.
Accepted(r) == HasValidated(r) /\ ~Rejected(r)

Numbers(items) == [i \in 1..Len(items) |-> items[i].question_number.n]

\* C1: validation raises the failure of the first violated check, in the
\* order user_id, survey_results, then per entry as listed number range,
\* duplicate, value range; with its message when the failure is the
\* validator's own; a short user_id gives the user_id failure and a wrong
\* length the shape failure whatever the entries are, and the numbers
\* 1,2,3,4,5,6,8,9,10,10 with values in range give the duplicate failure for 10.
C1_FirstViolationRaised ==
    \A r \in Requests : HasValidated(r) =>
        LET p == payload[r]
            first == FirstViolation(p)
        IN  /\ Rejected(r) <=> first # "none"
            /\ Rejected(r) =>
                 /\ CheckOf(locals[r].e) = first
                 /\ locals[r].e.exc = "InvalidUsage" =>
                      /\ resp[r].status = 400
                      /\ resp[r].error = MessageOf(first)
            /\ ("user_id" \in DOMAIN p /\ p.user_id.t = "str" /\ Len(p.user_id.s) < 5) =>
                 resp[r].error = "Invalid user_id: must be a string with at least 5 characters."
            /\ (UserIdOk(p) /\ "survey_results" \in DOMAIN p /\ p.survey_results.t = "list"
                    /\ Len(ItemsOf(p)) # 10) =>
                 resp[r].error = "Invalid survey_results: must contain exactly 10 objects."
            /\ (UserIdOk(p) /\ ShapeOk(p)
                    /\ \A i \in 1..10 : HasInt(ItemsOf(p)[i], "question_number") /\ ValueOk(ItemsOf(p)[i])) =>
                 (Numbers(ItemsOf(p)) = <<1, 2, 3, 4, 5, 6, 8, 9, 10, 10>> =>
                    /\ resp[r].error = "Duplicate question_number found"
                    /\ resp[r].arg = 10)

\* C1's case: a submission with a short user_id whose entries repeat a
\* number has been rejected for its user_id.
C1_Witness ==
    /\ Rejected(1)
    /\ "user_id" \in DOMAIN payload[1]
    /\ payload[1].user_id = JStr("abcd")
    /\ ShapeOk(payload[1])
    /\ \E i \in 1..10 : Repeats(ItemsOf(payload[1]), i)
    /\ resp[1].error = "Invalid user_id: must be a string with at least 5 characters."

IntegerFields(p) ==
    /\ "survey_results" \in DOMAIN p
    /\ \A i \in 1..Len(ItemsOf(p)) :
          HasInt(ItemsOf(p)[i], "question_number") /\ HasInt(ItemsOf(p)[i], "question_value")

\* The entries that repeat the number of an earlier entry.
Repeaters(items) == {i \in 1..Len(items) : Repeats(items, i)}

\* C2 as stated: with a valid user_id and exactly 10 entries of integer
\* fields, a submission holding a duplicate question_number is rejected as a
\* duplicate, for the number of the first entry that repeats an earlier one,
\* whatever the other entries are.
C2_AnyDuplicateReported ==
    \A r \in Requests :
        (HasValidated(r) /\ UserIdOk(payload[r]) /\ ShapeOk(payload[r])
            /\ IntegerFields(payload[r])
            /\ Repeaters(ItemsOf(payload[r])) # {}) =>
          LET items == ItemsOf(payload[r]) IN
            /\ Rejected(r)
            /\ resp[r].status = 400
            /\ resp[r].error = "Duplicate question_number found"
            /\ resp[r].arg = items[MinOf(Repeaters(items))].question_number.n

\* C2 amended: the same, for the submissions in which every entry listed
\* before the first repeating one has an integer question_number in 1..10
\* and an integer question_value in 1..7.
C2_FirstDuplicateReported ==
    \A r \in Requests :
        (HasValidated(r) /\ UserIdOk(payload[r]) /\ ShapeOk(payload[r])
            /\ Repeaters(ItemsOf(payload[r])) # {}
            /\ \A k \in 1..(MinOf(Repeaters(ItemsOf(payload[r]))) - 1) :
                  NumberOk(ItemsOf(payload[r])[k]) /\ ValueOk(ItemsOf(payload[r])[k])) =>
          LET items == ItemsOf(payload[r]) IN
            /\ Rejected(r)
            /\ resp[r].status = 400
            /\ resp[r].error = "Duplicate question_number found"
            /\ resp[r].arg = items[MinOf(Repeaters(items))].question_number.n

\* C2's case: a duplicate whose own value is not an integer in 1..7 has
\* been reported.
C2_Witness ==
    /\ Rejected(1)
    /\ UserIdOk(payload[1]) /\ ShapeOk(payload[1])
    /\ Repeaters(ItemsOf(payload[1])) # {}
    /\ ~ValueOk(ItemsOf(payload[1])[MinOf(Repeaters(ItemsOf(payload[1])))])
    /\ resp[1].error = "Duplicate question_number found"
    /\ resp[1].arg = ItemsOf(payload[1])[MinOf(Repeaters(ItemsOf(payload[1])))].question_number.n

\* A valid submission: a user_id of at least 5 characters and 10 entries
\* whose numbers are exactly 1..10, none twice, with values in 1..7.
ValidSubmission(p) ==
    /\ UserIdOk(p)
    /\ ShapeOk(p)
    /\ \A i \in 1..10 : NumberOk(ItemsOf(p)[i]) /\ ValueOk(ItemsOf(p)[i])
    /\ {ItemsOf(p)[i].question_number.n : i \in 1..10} = 1..10
    /\ \A i, j \in 1..10 : i # j => ItemsOf(p)[i].question_number.n # ItemsOf(p)[j].question_number.n

\* C3: a submission the validator accepts, its fields being integers, is a
\* valid submission; so the insights, the model and the store are reached,
\* and records stored, only for valid submissions.
C3_AcceptedIsValid ==
    /\ \A r \in Requests :
          (Accepted(r) /\ IntegerFields(payload[r])) => ValidSubmission(payload[r])
    /\ \A r \in Requests :
          (pc[r] \in {"validated", "computed", "prompted", "in_model", "described",
                      "awaiting_insert", "inserted", "insert_failed"}
             \/ "model" \in {events[r][i] : i \in 1..Len(events[r])}
             \/ "insert_one" \in {events[r][i] : i \in 1..Len(events[r])}
             \/ locals[r].question_values # <<>>)
          => ValidSubmission(payload[r])
    /\ \A k \in 1..Len(collection) :
          \E r \in Requests :
             /\ ValidSubmission(payload[r])
             /\ collection[k].user_id = payload[r].user_id

\* C3's case: an accepted submission listed out of question order has gone
\* through the model and been stored.
C3_Witness ==
    /\ pc[1] = "inserted"
    /\ Len(collection) = 1
    /\ Numbers(ItemsOf(payload[1])) # <<1, 2, 3, 4, 5, 6, 7, 8, 9, 10>>

(***************************************************************************)
(* The insights, read from the submission by question number.              *)
(***************************************************************************)
\* The value of the entry whose question_number is q.
ValueOfQuestion(p, q) ==
    LET i == CHOOSE k \in 1..10 : ItemsOf(p)[k].question_number.n = q
    IN  ItemsOf(p)[i].question_value.n

ValueAt(p, i) == ItemsOf(p)[i].question_value.n

RECURSIVE ValueSumTo(_, _)
ValueSumTo(p, i) == IF i = 0 THEN 0 ELSE ValueAt(p, i) + ValueSumTo(p, i - 1)

ValueSum(p) == ValueSumTo(p, 10)

\* generate_insights has computed the labels of request r.
HasComputed(r) == locals[r].question_values # <<>>

\* C4 as stated: the labels of a valid submission, in whatever order its
\* entries are listed, come from the answers looked up by question_number:
\* overall_analysis from questions 1 and 4, cat_dog from 10 and 9,
\* tail_value from 7.
C4_LabelsByQuestionNumber ==
    \A r \in Requests : HasComputed(r) =>
        LET p == payload[r]
            ins == locals[r].insights
        IN  /\ ins.overall_analysis =
                 (IF ValueOfQuestion(p, 1) # 7 \/ ValueOfQuestion(p, 4) >= 3 THEN "certain" ELSE "unsure")
            /\ ins.cat_dog =
                 (IF ValueOfQuestion(p, 10) > 5 /\ ValueOfQuestion(p, 9) <= 5 THEN "cats" ELSE "dogs")
            /\ ins.tail_value = (IF ValueOfQuestion(p, 7) > 4 THEN "long" ELSE "short")

\* C5 as stated: a request whose payload violates the schema ends with
\* status 400 and an error message, never with status 500; status 500 comes
\* only from description generation and persistence.
C5_InvalidPayloadIs400 ==
    \A r \in Requests : pc[r] = "done" =>
        /\ FirstViolation(payload[r]) # "none" =>
             /\ resp[r].status = 400
             /\ resp[r].error # ""
        /\ resp[r].status = 500 => locals[r].e.line \in 109..140

\* C8: the short-hair template is selected exactly when the values sum to
\* 41 or more and the long-hair one exactly when they sum to 40 or less (so
\* for all values 4), and the model input is the system prompt, a newline,
\* then the selected template.
C8_TemplateByMean ==
    \A r \in Requests : locals[r].file_name # "" =>
        LET p == payload[r] IN
        /\ locals[r].file_name = "the_value_of_short_hair.txt" <=> ValueSum(p) >= 41
        /\ locals[r].file_name = "the_value_of_long_hair.txt" <=> ValueSum(p) <= 40
        /\ (\A i \in 1..10 : ValueAt(p, i) = 4) => locals[r].file_name = "the_value_of_long_hair.txt"
        /\ locals[r].input_text = <<"system_prompt.txt", "\n", locals[r].file_name>>
        /\ (pc[r] = "in_model" \/ locals[r].insights.description # <<>>) =>
             "model" \in {events[r][i] : i \in 1..Len(events[r])}

\* C8's case: a submission of mean 4.1 has its prompt built from the
\* short-hair template.
C8_Witness ==
    /\ pc[1] = "in_model"
    /\ ValueSum(payload[1]) = 41
    /\ locals[1].input_text = <<"system_prompt.txt", "\n", "the_value_of_short_hair.txt">>

\* The k-th smallest of the 10 values.
KthSmallest(p, k) ==
    CHOOSE v \in 1..7 :
        /\ Cardinality({i \in 1..10 : ValueAt(p, i) < v}) < k
        /\ k <= Cardinality({i \in 1..10 : ValueAt(p, i) <= v})

\* The sum over the values x of (10x - sum)^2: 100 times the sum of the
\* squared deviations from the mean.
RECURSIVE Deviation100To(_, _)
Deviation100To(p, i) ==
    IF i = 0 THEN 0
    ELSE (10 * ValueAt(p, i) - ValueSum(p)) * (10 * ValueAt(p, i) - ValueSum(p))
            + Deviation100To(p, i - 1)

\* C9: in hundredths, mean is sum/10, median the average of the 5th and 6th
\* smallest values, and std_dev the sample standard deviation (denominator
\* 9) rounded to the nearest hundredth; all values 4 give 4.0, 4.0, 0.0; and
\* std_dev is 0 for fewer than two values.
C9_StandardStatistics ==
    /\ \A r \in Requests : HasComputed(r) =>
          LET p == payload[r]
              st == locals[r].insights.statistics
              d == Deviation100To(p, 10)
          IN  /\ 10 * st.mean = 100 * ValueSum(p)
              /\ 2 * st.median = 100 * (KthSmallest(p, 5) + KthSmallest(p, 6))
              /\ st.std_dev >= 0
              /\ st.std_dev > 0 => 9 * (2 * st.std_dev - 1) * (2 * st.std_dev - 1) <= 400 * d
              /\ 400 * d < 9 * (2 * st.std_dev + 1) * (2 * st.std_dev + 1)
              /\ (\A i \in 1..10 : ValueAt(p, i) = 4) =>
                    st = [mean |-> 400, median |-> 400, std_dev |-> 0]
    /\ StdDev100(<<>>) = 0
    /\ \A v \in 1..7 : StdDev100(<<v>>) = 0

\* C9's case: statistics computed for values that are not all equal and
\* whose median falls between two values.
C9_Witness ==
    /\ HasComputed(1)
    /\ locals[1].insights.statistics.std_dev > 0
    /\ locals[1].insights.statistics.median % 100 = 50

\* The entries are listed in question order 1..10.
InQuestionOrder(p) == \A i \in 1..10 : ItemsOf(p)[i].question_number.n = i

\* C10: for a valid submission listed in question order with values v1..v10,
\* overall_analysis is "unsure" exactly when v1 = 7 and v4 < 3, cat_dog is
\* "cats" exactly when v10 > 5 and v9 <= 5, fur_value is "long" exactly when
\* the sum is 51 or more, tail_value is "long" exactly when v7 > 4; the
\* values 7,1,1,1,1,1,5,1,6,6 give "unsure" and "dogs".
C10_LabelRules ==
    \A r \in Requests : (HasComputed(r) /\ InQuestionOrder(payload[r])) =>
        LET p == payload[r]
            ins == locals[r].insights
        IN  /\ ins.overall_analysis \in {"certain", "unsure"}
            /\ ins.overall_analysis = "unsure" <=> (ValueAt(p, 1) = 7 /\ ValueAt(p, 4) < 3)
            /\ ins.cat_dog \in {"cats", "dogs"}
            /\ ins.cat_dog = "cats" <=> (ValueAt(p, 10) > 5 /\ ValueAt(p, 9) <= 5)
            /\ ins.fur_value \in {"long", "short"}
            /\ ins.fur_value = "long" <=> ValueSum(p) >= 51
            /\ ins.tail_value \in {"long", "short"}
            /\ ins.tail_value = "long" <=> ValueAt(p, 7) > 4
            /\ [i \in 1..10 |-> ValueAt(p, i)] = <<7, 1, 1, 1, 1, 1, 5, 1, 6, 6>> =>
                 ins.overall_analysis = "unsure" /\ ins.cat_dog = "dogs"
            /\ (resp[r].status = 200) =>
                 /\ resp[r].insights.overall_analysis = ins.overall_analysis
                 /\ resp[r].insights.cat_dog = ins.cat_dog
                 /\ resp[r].insights.fur_value = ins.fur_value
                 /\ resp[r].insights.tail_value = ins.tail_value

\* C10's case: the submission 7,1,1,1,1,1,5,1,6,6 in question order has been
\* answered with "unsure" and "dogs".
C10_Witness ==
    /\ resp[1].status = 200
    /\ InQuestionOrder(payload[1])
    /\ [i \in 1..10 |-> ValueAt(payload[1], i)] = <<7, 1, 1, 1, 1, 1, 5, 1, 6, 6>>
    /\ resp[1].insights.overall_analysis = "unsure"
    /\ resp[1].insights.cat_dog = "dogs"

(***************************************************************************)
(* The order of a request's events, and the event loop.                    *)
(***************************************************************************)
IsPrefix(a, b) == Len(a) <= Len(b) /\ a = SubSeq(b, 1, Len(a))

Occurs(ev, evs) == ev \in {evs[i] : i \in 1..Len(evs)}

\* The events before the response.
BeforeResponse(evs) ==
    IF evs # <<>> /\ evs[Len(evs)] = "response" THEN SubSeq(evs, 1, Len(evs) - 1) ELSE evs

StoredFor(r) ==
    \E k \in 1..Len(collection) :
        collection[k] = [user_id |-> payload[r].user_id, insights |-> locals[r].insights]

\* C6: a request's events before its response are a prefix of validate,
\* model, insert_one, each at most once; insert_one is called only for a
\* valid submission with its description; a record is in the store only for
\* an insert_one that succeeded; status 200 is returned only after that;
\* a failed insert_one gives status 500; and a finished request has
\* responded once, with 200, 400 or 500.
C6_PipelineOrder ==
    /\ \A r \in Requests :
          /\ IsPrefix(BeforeResponse(events[r]), <<"validate", "model", "insert_one">>)
          /\ pc[r] = "done" <=> Occurs("response", events[r])
          /\ IF pc[r] = "done" THEN resp[r].status \in {200, 400, 500} ELSE resp[r].status = 0
          /\ Occurs("insert_one", events[r]) =>
                /\ FirstViolation(payload[r]) = "none"
                /\ locals[r].insights.description # <<>>
          /\ resp[r].status = 400 <=> (pc[r] = "done" /\ events[r] = <<"validate", "response">>
                                          /\ FirstViolation(payload[r]) # "none")
          /\ resp[r].status = 200 =>
                /\ events[r] = <<"validate", "model", "insert_one", "response">>
                /\ StoredFor(r)
                /\ resp[r].insights = locals[r].insights
          /\ (pc[r] = "insert_failed" \/ locals[r].e.line = 136) => ~(resp[r].status \in {200, 400})
          /\ (pc[r] = "done" /\ Occurs("insert_one", events[r]) /\ resp[r].status # 200) =>
                resp[r].status = 500 /\ locals[r].e.line = 136
    /\ Len(collection) = Cardinality({r \in Requests : pc[r] = "inserted" \/ resp[r].status = 200})

\* C6's case: one request answered 200 after its record was stored, and
\* another answered 500 after its insert_one failed.
C6_Witness ==
    \E r, q \in Requests :
        /\ resp[r].status = 200
        /\ resp[q].status = 500
        /\ events[q] = <<"validate", "model", "insert_one", "response">>
        /\ Len(collection) = 1

\* C7 as stated: while a request waits for the model or for insert_one,
\* the loop can run the handler of another request that is ready (one
\* received and not yet started, or one whose insert_one has completed).
C7_BothSuspend ==
    \A r, q \in Requests :
        (r # q /\ pc[r] \in {"in_model", "awaiting_insert"}
               /\ pc[q] \in {"received", "inserted", "insert_failed"})
          => ENABLED (Validate(q) \/ Resume(q))

====
